---- MODULE Spec2Model ----
(***************************************************************************)
(* Model of the chord-analyzer core: normalisation and statistics          *)
(* (utils/chord_analyzer.py), chord parsing and MIDI note generation       *)
(* (utils/midi_generator.py) and the handlers of app.py that call them.    *)
(*                                                                         *)
(* A Python str is modelled as a sequence of one-character strings, so     *)
(* that strip(), upper() and split(':', 1) are computed, not assumed.      *)
(* A Python dict is modelled as a sequence of <<key, value>> pairs in      *)
(* insertion order (the order dict iteration follows).                     *)
(* Times are whole seconds.                                                *)
(***************************************************************************)
EXTENDS Integers, Sequences, FiniteSets, TLC

VARIABLES
    chords_arr,       \* what self.processor(audio_path) gives for the current file
    ret,              \* return value of the last analyze_audio_file call
    analysis_result,  \* st.session_state.analysis_result
    chord_segments,   \* argument of the last chords_to_midi call
    notes,            \* the notes list built by that call
    midi_path,        \* what that call returned
    metrics,          \* what the advanced-analysis page last computed and showed
    settings,         \* the display settings render_sidebar returns
    pc                \* position of the session / of the call

vars == <<chords_arr, ret, analysis_result, chord_segments, notes, midi_path, metrics, settings, pc>>

\* ------------------------------------------------------------------------
\* Bounds
\* ------------------------------------------------------------------------
MaxLen == 3       \* longest recognizer output
MaxSegs == 3      \* longest segment list handed directly to chords_to_midi

\* ------------------------------------------------------------------------
\* Python values
\* ------------------------------------------------------------------------
None == [none |-> TRUE]

NoneLabel == <<"<None>">>

\* ------------------------------------------------------------------------
\* str operations
\* ------------------------------------------------------------------------
IsSpace(c) == c \in {" ", "\t"}

UpperChar(c) ==
    CASE c = "a" -> "A" [] c = "b" -> "B" [] c = "c" -> "C" [] c = "d" -> "D"
      [] c = "e" -> "E" [] c = "f" -> "F" [] c = "g" -> "G" [] c = "i" -> "I"
      [] c = "j" -> "J" [] c = "m" -> "M" [] c = "n" -> "N" [] c = "s" -> "S"
      [] c = "u" -> "U" [] c = "x" -> "X"
      [] OTHER -> c

upper(s) == [i \in 1..Len(s) |-> UpperChar(s[i])]

RECURSIVE lstrip(_)
lstrip(s) == IF s # <<>> /\ IsSpace(Head(s)) THEN lstrip(Tail(s)) ELSE s

RECURSIVE rstrip(_)
rstrip(s) == IF s # <<>> /\ IsSpace(s[Len(s)]) THEN rstrip(SubSeq(s, 1, Len(s) - 1)) ELSE s

strip(s) == rstrip(lstrip(s))

\* ':' in chord_str
HasColon(s) == \E i \in 1..Len(s) : s[i] = ":"

FirstColon(s) == CHOOSE i \in 1..Len(s) : s[i] = ":" /\ \A j \in 1..(i - 1) : s[j] # ":"

\* chord_str.split(':', 1), for a chord_str that holds a ':'
split1(s) == <<SubSeq(s, 1, FirstColon(s) - 1), SubSeq(s, FirstColon(s) + 1, Len(s))>>

\* ------------------------------------------------------------------------
\* dict operations (insertion-ordered sequence of <<key, value>>)
\* ------------------------------------------------------------------------
DictHas(d, k) == \E i \in 1..Len(d) : d[i][1] = k

DictGet(d, k) == d[CHOOSE i \in 1..Len(d) : d[i][1] = k][2]

DictKeys(d) == {d[i][1] : i \in 1..Len(d)}

\* d[k] += 1 when k is a key, d[k] = 1 (appended) otherwise
DictIncr(d, k) ==
    IF DictHas(d, k)
    THEN [i \in 1..Len(d) |-> IF d[i][1] = k THEN <<k, d[i][2] + 1>> ELSE d[i]]
    ELSE Append(d, <<k, 1>>)

\* ------------------------------------------------------------------------
\* utils/midi_generator.py
\* ------------------------------------------------------------------------
CHORD_ROOT_MAP ==
    << <<<<"C">>, 60>>, <<<<"C", "#">>, 61>>, <<<<"D", "b">>, 61>>, <<<<"D">>, 62>>,
       <<<<"D", "#">>, 63>>, <<<<"E", "b">>, 63>>, <<<<"E">>, 64>>, <<<<"F">>, 65>>,
       <<<<"F", "#">>, 66>>, <<<<"G", "b">>, 66>>, <<<<"G">>, 67>>, <<<<"G", "#">>, 68>>,
       <<<<"A", "b">>, 68>>, <<<<"A">>, 69>>, <<<<"A", "#">>, 70>>, <<<<"B", "b">>, 70>>,
       <<<<"B">>, 71>> >>

CHORD_TYPE_MAP ==
    << <<<<>>, <<0, 4, 7>>>>,
       <<<<"m", "a", "j">>, <<0, 4, 7>>>>,
       <<<<"m", "i", "n">>, <<0, 3, 7>>>>,
       <<<<"m">>, <<0, 3, 7>>>>,
       <<<<"d", "i", "m">>, <<0, 3, 6>>>>,
       <<<<"a", "u", "g">>, <<0, 4, 8>>>>,
       <<<<"7">>, <<0, 4, 7, 10>>>>,
       <<<<"m", "a", "j", "7">>, <<0, 4, 7, 11>>>>,
       <<<<"m", "7">>, <<0, 3, 7, 10>>>> >>

\* parse_chord(chord) for a str chord: <<root, ctype>>
parse_chord(chord_str) ==
    LET parts == IF HasColon(chord_str) THEN split1(chord_str) ELSE <<chord_str, <<>>>>
    IN  <<upper(strip(parts[1])), strip(parts[2])>>

\* SegmentNotes that sounds the root only
SegmentNotes_RootOnly(chord_segment) ==
    LET chord == chord_segment[3]
        root == parse_chord(chord)[1]
    IN  IF chord = <<>> \/ chord = <<"N">> \/ ~DictHas(CHORD_ROOT_MAP, root)
        THEN <<>>
        ELSE <<[velocity |-> 80, pitch |-> DictGet(CHORD_ROOT_MAP, root),
                start |-> chord_segment[1], end |-> chord_segment[2]]>>

\* SegmentNotes that walks the interval list from its end
SegmentNotes_Reversed(chord_segment) ==
    LET chord == chord_segment[3]
        parsed == parse_chord(chord)
    IN  IF chord = <<>> \/ chord = <<"N">> \/ ~DictHas(CHORD_ROOT_MAP, parsed[1])
        THEN <<>>
        ELSE LET root_note == DictGet(CHORD_ROOT_MAP, parsed[1])
                 intervals == IF DictHas(CHORD_TYPE_MAP, parsed[2])
                              THEN DictGet(CHORD_TYPE_MAP, parsed[2])
                              ELSE DictGet(CHORD_TYPE_MAP, <<>>)
             IN  [k \in 1..Len(intervals) |->
                    [velocity |-> 80, pitch |-> root_note + intervals[Len(intervals) + 1 - k],
                     start |-> chord_segment[1], end |-> chord_segment[2]]]

\* SegmentNotes that pitches the chord one octave above the table
SegmentNotes_OctaveUp(chord_segment) ==
    LET chord == chord_segment[3]
        parsed == parse_chord(chord)
    IN  IF chord = <<>> \/ chord = <<"N">> \/ ~DictHas(CHORD_ROOT_MAP, parsed[1])
        THEN <<>>
        ELSE LET root_note == DictGet(CHORD_ROOT_MAP, parsed[1]) + 12
                 intervals == IF DictHas(CHORD_TYPE_MAP, parsed[2])
                              THEN DictGet(CHORD_TYPE_MAP, parsed[2])
                              ELSE DictGet(CHORD_TYPE_MAP, <<>>)
             IN  [k \in 1..Len(intervals) |->
                    [velocity |-> 80, pitch |-> root_note + intervals[k],
                     start |-> chord_segment[1], end |-> chord_segment[2]]]

\* the notes one chord_segment adds in the loop body of chords_to_midi
SegmentNotes(chord_segment) ==
    LET start == chord_segment[1]
        end == chord_segment[2]
        chord == chord_segment[3]
        parsed == parse_chord(chord)
        root == parsed[1]
        ctype == parsed[2]
    IN  IF chord = <<>> \/ chord = <<"N">>
        THEN <<>>
        ELSE IF ~DictHas(CHORD_ROOT_MAP, root)
        THEN <<>>
        ELSE LET root_note == DictGet(CHORD_ROOT_MAP, root)
                 intervals == IF DictHas(CHORD_TYPE_MAP, ctype)
                              THEN DictGet(CHORD_TYPE_MAP, ctype)
                              ELSE DictGet(CHORD_TYPE_MAP, <<>>)
             IN  [k \in 1..Len(intervals) |->
                    [velocity |-> 80, pitch |-> root_note + intervals[k],
                     start |-> start, end |-> end]]

\* BuildNotes whose loop stops at the first root that is not in the table
RECURSIVE BuildNotes_Break(_)
BuildNotes_Break(segs) ==
    IF segs = <<>> THEN <<>>
    ELSE IF Head(segs)[3] # <<>> /\ Head(segs)[3] # <<"N">>
            /\ ~DictHas(CHORD_ROOT_MAP, parse_chord(Head(segs)[3])[1])
    THEN <<>>
    ELSE SegmentNotes(Head(segs)) \o BuildNotes_Break(Tail(segs))

\* the notes list after the loop over chord_segments
RECURSIVE BuildNotes(_)
BuildNotes(segs) ==
    IF segs = <<>> THEN <<>>
    ELSE BuildNotes(SubSeq(segs, 1, Len(segs) - 1)) \o SegmentNotes(segs[Len(segs)])

\* InsufficientNotes asking for the notes of two triads
InsufficientNotes_TwoChords(ns) == Len(ns) < 6

InsufficientNotes(ns) == Len(ns) < 2

\* chords_to_midi(chord_segments): the notes and the returned value;
\* written tells whether pm.write succeeded
chords_to_midi(segs, written) ==
    LET ns == BuildNotes(segs)
    IN  [notes |-> ns,
         path |-> IF InsufficientNotes(ns) THEN "None:insufficient"
                  ELSE IF written THEN "file.mid"
                  ELSE "None:write_failed"]

\* ------------------------------------------------------------------------
\* utils/chord_analyzer.py
\* ------------------------------------------------------------------------
\* float(x): defined for a number, raises ValueError otherwise
FloatRaises(x) == ~x.num

float(x) == x.val

\* str(x): a str is itself, the float nan prints as "nan"
str(x) == IF x.t = "str" THEN x.s ELSE <<"n", "a", "n">>

\* isinstance(c, tuple) and len(c) == 3
IsTuple3(c) == c.tuple3

\* label_str and label_str != 'nan', for label_str = str(label).strip()
IsValidLabel(label) == strip(label) # <<>> /\ strip(label) # <<"n", "a", "n">>

\* CountLabels without the validity test of the loop body
RECURSIVE CountLabels_NoValidityTest(_)
CountLabels_NoValidityTest(chords) ==
    IF chords = <<>> THEN <<>>
    ELSE DictIncr(CountLabels_NoValidityTest(SubSeq(chords, 1, Len(chords) - 1)),
                  strip(chords[Len(chords)][3]))

\* the chord_counts dict after the loop over chords
RECURSIVE CountLabels(_)
CountLabels(chords) ==
    IF chords = <<>> THEN <<>>
    ELSE LET before == CountLabels(SubSeq(chords, 1, Len(chords) - 1))
             label_str == strip(chords[Len(chords)][3])
         IN  IF IsValidLabel(chords[Len(chords)][3])
             THEN DictIncr(before, label_str)
             ELSE before

\* MaxItem taking the last of the items with the greatest count
MaxItem_LastMax(d) ==
    d[CHOOSE i \in 1..Len(d) :
        /\ \A j \in 1..Len(d) : d[j][2] <= d[i][2]
        /\ \A j \in (i + 1)..Len(d) : d[j][2] < d[i][2]]

\* max(chord_counts.items(), key=lambda x: x[1]): the first item, in
\* iteration order, whose count no other item exceeds
MaxItem(d) ==
    d[CHOOSE i \in 1..Len(d) :
        /\ \A j \in 1..Len(d) : d[j][2] <= d[i][2]
        /\ \A j \in 1..(i - 1) : d[j][2] < d[i][2]]

TotalChords(chords) == Len(chords)

_analyze_chord_statistics(chords) ==
    LET chord_counts == CountLabels(chords)
        most_common == IF chord_counts # <<>> THEN MaxItem(chord_counts) ELSE <<NoneLabel, 0>>
    IN  [total_chords |-> TotalChords(chords),
         unique_chords |-> Len(chord_counts),
         most_common_chord |-> most_common[1],
         most_common_count |-> most_common[2],
         chord_distribution |-> chord_counts]

\* the loop of analyze_audio_file reaches an element whose float() raises
CoercionRaises(arr) ==
    \E i \in 1..Len(arr) :
        IsTuple3(arr[i]) /\ (FloatRaises(arr[i].c[1]) \/ FloatRaises(arr[i].c[2]))

\* the chords list after the loop, when no float() raised
Normalize(arr) ==
    LET kept == SelectSeq(arr, IsTuple3)
    IN  [i \in 1..Len(kept) |-> <<float(kept[i].c[1]), float(kept[i].c[2]), str(kept[i].c[3])>>]

\* analyze_audio_file, given what self.processor(audio_path) did
analyze_audio_file(out) ==
    IF out.raised \/ CoercionRaises(out.arr)
    THEN None
    ELSE LET chords == Normalize(out.arr)
         IN  IF chords = <<>>
             THEN None
             ELSE [chords |-> chords,
                   statistics |-> _analyze_chord_statistics(chords),
                   duration |-> chords[Len(chords)][2]]

\* ------------------------------------------------------------------------
\* app.py
\* ------------------------------------------------------------------------
\* valid_chords of render_home_page: the stored tuples with a valid label
IsValidSegment(c) == IsValidLabel(c[3])

ValidChords(chords) == SelectSeq(chords, IsValidSegment)

\* the two display checkboxes of render_sidebar, both ticked by default
Settings == [show_timeline : BOOLEAN, show_distribution : BOOLEAN]

DefaultSettings == [show_timeline |-> TRUE, show_distribution |-> TRUE]

\* a key the result dict does not hold
NoPlot == [present |-> FALSE, fig |-> <<>>]

\* create_chord_timeline_plot: the points (start, stripped label) of the
\* valid chords; an empty figure when there is none
create_chord_timeline_plot(result) ==
    LET kept == ValidChords(result.chords)
    IN  [present |-> TRUE, fig |-> [i \in 1..Len(kept) |-> <<kept[i][1], strip(kept[i][3])>>]]

\* k and k != 'nan' and v > 0
IsPlottedItem(item) == item[1] # <<>> /\ item[1] # <<"n", "a", "n">> /\ item[2] > 0

\* create_chord_distribution_plot: the bars (label, count) of the distribution
create_chord_distribution_plot(result) ==
    [present |-> TRUE, fig |-> SelectSeq(result.statistics.chord_distribution, IsPlottedItem)]

\* the dict perform_analysis stores: the returned one with the plots the
\* settings ask for
WithPlots(result, s) ==
    [chords |-> result.chords,
     statistics |-> result.statistics,
     duration |-> result.duration,
     timeline_plot |-> IF s.show_timeline THEN create_chord_timeline_plot(result) ELSE NoPlot,
     distribution_plot |-> IF s.show_distribution THEN create_chord_distribution_plot(result) ELSE NoPlot]

\* WithPlots written into the stored dict key by key, so that a plot the
\* settings no longer ask for stays from the result before
WithPlots_Update(old, result, s) ==
    [chords |-> result.chords,
     statistics |-> result.statistics,
     duration |-> result.duration,
     timeline_plot |-> IF s.show_timeline THEN create_chord_timeline_plot(result)
                       ELSE IF old # None THEN old.timeline_plot ELSE NoPlot,
     distribution_plot |-> IF s.show_distribution THEN create_chord_distribution_plot(result)
                           ELSE IF old # None THEN old.distribution_plot ELSE NoPlot]

\* what perform_analysis leaves in st.session_state.analysis_result
StoredResult_Update(old, returned, s) ==
    IF returned # None THEN WithPlots_Update(old, returned, s) ELSE old

StoredResult(old, returned, s) ==
    IF returned # None THEN WithPlots(returned, s) ELSE old

\* ------------------------------------------------------------------------
\* pages/advanced_analysis.py
\* A quotient a / b of two ints is kept as the pair <<a, b>>; the literal 0
\* of a guarded quotient is <<0, 1>>.
\* ------------------------------------------------------------------------
NoMetrics == [page |-> "none", shown |-> FALSE]

Zero == <<0, 1>>

\* [str(label).strip() for _, _, label in chords if <label is valid>]
ValidLabels(chords) ==
    LET kept == ValidChords(chords)
    IN  [i \in 1..Len(kept) |-> strip(kept[i][3])]

\* len(set(valid_chords))
SetLen(valid_chords) == Cardinality({valid_chords[i] : i \in 1..Len(valid_chords)})

\* UniqueRatio dividing by the number of distinct labels
UniqueRatio_BySetLen(valid_chords) ==
    IF valid_chords # <<>> THEN <<Len(valid_chords), SetLen(valid_chords)>> ELSE Zero

\* len(set(valid_chords)) / len(valid_chords) if valid_chords else 0
UniqueRatio(valid_chords) ==
    IF valid_chords # <<>> THEN <<SetLen(valid_chords), Len(valid_chords)>> ELSE Zero

\* sum(1 for i in range(1, len(valid_chords)) if valid_chords[i] != valid_chords[i-1])
RECURSIVE Changes(_)
Changes(valid_chords) ==
    IF Len(valid_chords) <= 1 THEN 0
    ELSE Changes(SubSeq(valid_chords, 1, Len(valid_chords) - 1))
         + (IF valid_chords[Len(valid_chords)] # valid_chords[Len(valid_chords) - 1] THEN 1 ELSE 0)

\* ChangeRatio dividing by the number of labels
ChangeRatio_ByLen(valid_chords) ==
    IF Len(valid_chords) > 1 THEN <<Changes(valid_chords), Len(valid_chords)>> ELSE Zero

\* changes / (len(valid_chords) - 1) if len(valid_chords) > 1 else 0
ChangeRatio(valid_chords) ==
    IF Len(valid_chords) > 1 THEN <<Changes(valid_chords), Len(valid_chords) - 1>> ELSE Zero

\* the bigrams list: the adjacent pairs of valid_chords
Bigrams(valid_chords) ==
    [i \in 1..(IF valid_chords = <<>> THEN 0 ELSE Len(valid_chords) - 1) |->
        <<valid_chords[i], valid_chords[i + 1]>>]

\* 'm' in c
HasM(c) == \E i \in 1..Len(c) : c[i] = "m"

\* IsMinor looking for 'm' after the first ':' only
IsMinor_QualityOnly(c) == HasColon(c) /\ HasM(split1(c)[2])

IsMinor(c) == HasM(c)

IsMajor(c) == ~HasM(c) /\ c # <<"N">>

\* the streak loop over valid_chords[1:], as <<current_chord, max_streak, current_streak>>
RECURSIVE StreakLoop(_)
StreakLoop(valid_chords) ==
    IF Len(valid_chords) = 1 THEN <<valid_chords[1], 1, 1>>
    ELSE LET st == StreakLoop(SubSeq(valid_chords, 1, Len(valid_chords) - 1))
             chord == valid_chords[Len(valid_chords)]
         IN  IF chord = st[1]
             THEN <<st[1], st[2], st[3] + 1>>
             ELSE <<chord, IF st[3] > st[2] THEN st[3] ELSE st[2], 1>>

\* MaxStreak without the comparison that follows the loop
MaxStreak_NoFinalCompare(valid_chords) == StreakLoop(valid_chords)[2]

\* max_streak of render_musical_features, for a non-empty valid_chords
MaxStreak(valid_chords) ==
    LET st == StreakLoop(valid_chords)
    IN  IF st[3] > st[2] THEN st[3] ELSE st[2]

\* ------------------------------------------------------------------------
\* Inputs
\* ------------------------------------------------------------------------
Num(n) == [num |-> TRUE, val |-> n]

NotANumber == [num |-> FALSE, val |-> 0]

Str(s) == [t |-> "str", s |-> s]

NaNFloat == [t |-> "float", s |-> <<>>]

Tuple3(a, b, l) == [tuple3 |-> TRUE, c |-> <<a, b, l>>]

RawLabels ==
    { <<"C">>, <<"G">>, <<" ", "G">>, <<"N">>, <<>>, <<" ">>, <<"n", "a", "n">>,
      <<"C", ":", "m", "a", "j">>, <<"A", "m">> }

\* the elements the recognizer may give at position i: a well-formed tuple
\* for the window [i-1, i], a tuple whose label is the float nan, a tuple
\* whose start is not a number, a tuple whose window runs backwards before
\* time 0 (and before the windows of the earlier positions), or a row that
\* is not a 3-tuple
RawElements(i) ==
    {Tuple3(Num(i - 1), Num(i), Str(l)) : l \in RawLabels}
    \cup {Tuple3(Num(i - 1), Num(i), NaNFloat),
          Tuple3(NotANumber, Num(i), Str(<<"C">>)),
          Tuple3(Num(0 - i), Num(0 - i - 1), Str(<<"C">>)),
          [tuple3 |-> FALSE, c |-> <<Num(i - 1), Num(i), Str(<<"C">>)>>]}

RECURSIVE RawArrays(_)
RawArrays(n) ==
    IF n = 0 THEN {<<>>}
    ELSE {Append(a, e) : a \in RawArrays(n - 1), e \in RawElements(n)}

\* the arrays of at most n elements
RECURSIVE RawArraysUpTo(_)
RawArraysUpTo(n) ==
    IF n = 0 THEN RawArrays(0) ELSE RawArraysUpTo(n - 1) \cup RawArrays(n)

RecognizerOutputs ==
    {[raised |-> FALSE, arr |-> a] : a \in RawArraysUpTo(MaxLen)}
    \cup {[raised |-> TRUE, arr |-> <<>>]}

NoOutput == [raised |-> FALSE, arr |-> <<>>]

RootNames == DictKeys(CHORD_ROOT_MAP)

Qualities == DictKeys(CHORD_TYPE_MAP) \cup {<<"s", "u", "s", "4">>}

\* every ROOT:QUALITY label, and every bare ROOT
RootLabels ==
    {r \o <<":">> \o q : r \in RootNames, q \in Qualities} \cup RootNames

MidiLabels ==
    { <<"C", ":", "m", "a", "j">>, <<"G", ":", "7">>, <<"B", "b", ":", "m", "i", "n">>,
      <<"X", "b", ":", "m", "a", "j">>, <<"C", ":", "s", "u", "s", "4">>,
      <<"N">>, <<>>, <<" ">> }

RECURSIVE SegmentLists(_)
SegmentLists(n) ==
    IF n = 0 THEN {<<>>}
    ELSE {Append(a, <<n - 1, n, l>>) : a \in SegmentLists(n - 1), l \in MidiLabels}

\* the segment lists of at most n segments
RECURSIVE SegmentListsUpTo(_)
SegmentListsUpTo(n) ==
    IF n = 0 THEN SegmentLists(0) ELSE SegmentListsUpTo(n - 1) \cup SegmentLists(n)

\* the lists chords_to_midi is called with: any list of at most MaxSegs
\* segments over MidiLabels, and every one-segment list over RootLabels
MidiInputs ==
    SegmentListsUpTo(MaxSegs)
    \cup {<< <<0, 1, l>> >> : l \in RootLabels}

\* ------------------------------------------------------------------------
\* Session: one uploaded file, analysed, then played as MIDI
\* ------------------------------------------------------------------------
Init ==
    /\ chords_arr \in RecognizerOutputs
    /\ ret = None
    /\ analysis_result = None
    /\ chord_segments = <<>>
    /\ notes = <<>>
    /\ midi_path = "unset"
    /\ metrics = NoMetrics
    /\ settings = DefaultSettings
    /\ pc = "uploaded"

\* perform_analysis: analyze_audio_file, its result stored with its plots
\* when truthy
perform_analysis ==
    /\ pc = "uploaded"
    /\ ret' = analyze_audio_file(chords_arr)
    /\ analysis_result' = StoredResult(analysis_result, ret', settings)
    /\ pc' = "analyzed"
    /\ UNCHANGED <<chords_arr, chord_segments, notes, midi_path, metrics, settings>>

\* the MIDI button of render_home_page
play_midi ==
    /\ pc = "analyzed"
    /\ analysis_result # None
    /\ ValidChords(analysis_result.chords) # <<>>
    /\ \E written \in BOOLEAN :
         LET valid_chords == ValidChords(analysis_result.chords)
             out == chords_to_midi(valid_chords, written)
         IN  /\ chord_segments' = valid_chords
             /\ notes' = out.notes
             /\ midi_path' = out.path
    /\ pc' = "played"
    /\ UNCHANGED <<chords_arr, ret, analysis_result, metrics, settings>>

\* render_chord_pattern_analysis: a warning and nothing else when there is
\* no result, no chord or no valid label; the pattern metrics otherwise
render_chord_pattern_analysis ==
    /\ pc = "analyzed"
    /\ metrics' =
         IF analysis_result = None THEN [page |-> "pattern", shown |-> FALSE]
         ELSE IF analysis_result.chords = <<>> THEN [page |-> "pattern", shown |-> FALSE]
         ELSE LET valid_chords == ValidLabels(analysis_result.chords)
              IN  IF valid_chords = <<>> THEN [page |-> "pattern", shown |-> FALSE]
                  ELSE [page |-> "pattern", shown |-> TRUE,
                        valid_chords |-> valid_chords,
                        bigrams |-> Bigrams(valid_chords),
                        unique_ratio |-> UniqueRatio(valid_chords),
                        change_ratio |-> ChangeRatio(valid_chords)]
    /\ pc' = "pattern"
    /\ UNCHANGED <<chords_arr, ret, analysis_result, chord_segments, notes, midi_path, settings>>

\* render_musical_features: the same early returns; the major and minor
\* lists, the longest streak and the complexity score otherwise
render_musical_features ==
    /\ pc = "analyzed"
    /\ metrics' =
         IF analysis_result = None THEN [page |-> "features", shown |-> FALSE]
         ELSE IF analysis_result.chords = <<>> THEN [page |-> "features", shown |-> FALSE]
         ELSE LET valid_chords == ValidLabels(analysis_result.chords)
              IN  IF valid_chords = <<>> THEN [page |-> "features", shown |-> FALSE]
                  ELSE [page |-> "features", shown |-> TRUE,
                        valid_chords |-> valid_chords,
                        major_chords |-> SelectSeq(valid_chords, IsMajor),
                        minor_chords |-> SelectSeq(valid_chords, IsMinor),
                        max_streak |-> MaxStreak(valid_chords),
                        complexity_score |->
                            IF Len(valid_chords) > 1
                            THEN <<SetLen(valid_chords) * 100, Len(valid_chords)>>
                            ELSE Zero]
    /\ pc' = "features"
    /\ UNCHANGED <<chords_arr, ret, analysis_result, chord_segments, notes, midi_path, settings>>

Next == perform_analysis \/ play_midi \/ render_chord_pattern_analysis \/ render_musical_features

Spec == Init /\ [][Next]_vars

\* ------------------------------------------------------------------------
\* chords_to_midi called on its own
\* ------------------------------------------------------------------------
InitMidi ==
    /\ chords_arr = NoOutput
    /\ ret = None
    /\ analysis_result = None
    /\ chord_segments \in MidiInputs
    /\ notes = <<>>
    /\ midi_path = "unset"
    /\ metrics = NoMetrics
    /\ settings = DefaultSettings
    /\ pc = "call"

generate_midi ==
    /\ pc = "call"
    /\ \E written \in BOOLEAN :
         LET out == chords_to_midi(chord_segments, written)
         IN  /\ notes' = out.notes
             /\ midi_path' = out.path
    /\ pc' = "returned"
    /\ UNCHANGED <<chords_arr, ret, analysis_result, chord_segments, metrics, settings>>

NextMidi == generate_midi

SpecMidi == InitMidi /\ [][NextMidi]_vars

\* ------------------------------------------------------------------------
\* Helpers of the properties
\* ------------------------------------------------------------------------
\* positions of chords whose label is valid
ValidPositions(chords) == {i \in 1..Len(chords) : IsValidLabel(chords[i][3])}

\* positions of chords whose stripped label is l
PositionsOf(chords, l) == {i \in ValidPositions(chords) : strip(chords[i][3]) = l}

\* the elements of the recognizer output that are 3-tuples with numeric times
WellFormed(c) == IsTuple3(c) /\ c.c[1].num /\ c.c[2].num

\* the root of a label is a key of the root table once parsed
RootParses(label) == DictHas(CHORD_ROOT_MAP, parse_chord(label)[1])

\* a segment that is a chord: valid label, not the sentinel, root parses
IsChordSegment(seg) == IsValidLabel(seg[3]) /\ seg[3] # <<"N">> /\ RootParses(seg[3])

\* C1: once analyze_audio_file has returned a result, its total_chords
\* equals the number of segments whose stripped label is non-empty and not
\* "nan".
C1_TotalIsValidCount ==
    (pc # "uploaded" /\ ret # None) =>
        ret.statistics.total_chords = Cardinality(ValidPositions(ret.chords))

\* C2: when the MIDI button ran chords_to_midi on a list holding exactly one
\* chord segment, the call returned None for insufficient notes.
C2_SingleChordFails ==
    (pc = "played" /\ Cardinality({i \in 1..Len(chord_segments) : IsChordSegment(chord_segments[i])}) = 1) =>
        midi_path = "None:insufficient"

\* C3: chords_to_midi on the single label ROOT:QUALITY, for every root name
\* of the table and every quality, finds the root and its first note has the
\* root's table pitch.
C3_EveryTableRootParses ==
    \A r \in RootNames : \A q \in Qualities :
        (pc = "returned" /\ chord_segments = << <<0, 1, r \o <<":">> \o q>> >>) =>
            /\ parse_chord(chord_segments[1][3])[1] = r
            /\ notes # <<>>
            /\ notes[1].pitch = DictGet(CHORD_ROOT_MAP, r)

\* C4: analyze_audio_file returns no result whenever the recognizer output
\* holds no 3-tuple with a valid label (empty output, or every label empty
\* or "nan").
C4_NoValidSegmentFails ==
    (pc # "uploaded"
       /\ ~\E i \in 1..Len(chords_arr.arr) :
             IsTuple3(chords_arr.arr[i]) /\ IsValidLabel(str(chords_arr.arr[i].c[3]))) =>
        ret = None

\* C5: when the recognizer did not fail, every well-formed element of its
\* output appears in the returned sequence, in order; elements that are
\* malformed or whose times do not coerce are dropped, and a result is
\* returned as soon as one well-formed element exists.
C5_MalformedElementDropped ==
    (pc # "uploaded" /\ ~chords_arr.raised
       /\ \E i \in 1..Len(chords_arr.arr) : WellFormed(chords_arr.arr[i])) =>
        /\ ret # None
        /\ ret.chords = Normalize(SelectSeq(chords_arr.arr, WellFormed))

\* C6: the distribution maps each distinct stripped valid label to the
\* number of valid segments carrying it: its keys are distinct, none is
\* empty or "nan", every valid label is a key, each count is the number of
\* positions carrying the key, the counts sum to the number of valid
\* segments, and unique_chords is the number of keys.
C6_DistributionCountsValidLabels ==
    (pc # "uploaded" /\ ret # None) =>
        LET d == ret.statistics.chord_distribution
            chords == ret.chords
        IN  /\ \A i, j \in 1..Len(d) : d[i][1] = d[j][1] => i = j
            /\ \A i \in 1..Len(d) :
                 /\ d[i][1] # <<>>
                 /\ d[i][1] # <<"n", "a", "n">>
                 /\ d[i][2] = Cardinality(PositionsOf(chords, d[i][1]))
                 /\ d[i][2] > 0
            /\ \A p \in ValidPositions(chords) : DictHas(d, strip(chords[p][3]))
            /\ ValidPositions(chords) = UNION {PositionsOf(chords, k) : k \in DictKeys(d)}
            /\ ret.statistics.unique_chords = Cardinality(DictKeys(d))
            /\ ret.statistics.unique_chords = Len(d)

\* a result whose distribution merges two spellings of one label and leaves
\* an invalid segment out
C6_Witness ==
    /\ pc = "analyzed"
    /\ ret # None
    /\ \E i \in 1..Len(ret.statistics.chord_distribution) :
         ret.statistics.chord_distribution[i][2] = 2
    /\ Cardinality(ValidPositions(ret.chords)) < Len(ret.chords)

\* first position of the stripped valid label l in chords
FirstSeen(chords, l) ==
    CHOOSE i \in PositionsOf(chords, l) : \A j \in PositionsOf(chords, l) : i <= j

SixLabels == << <<"C">>, <<"C">>, <<"G">>, <<"G">>, <<"G">>, <<"N">> >>

SixChords == [i \in 1..6 |-> <<i - 1, i, SixLabels[i]>>]

\* C7: most_common is a pair of the distribution whose count no label
\* exceeds, and every other label with the same count was first seen later
\* in the segment sequence; for [C,C,G,G,G,N] it is (G,3).
C7_MostCommonFirstSeen ==
    /\ (pc # "uploaded" /\ ret # None /\ ret.statistics.chord_distribution # <<>>) =>
          LET d == ret.statistics.chord_distribution
              label == ret.statistics.most_common_chord
              count == ret.statistics.most_common_count
          IN  /\ DictHas(d, label)
              /\ DictGet(d, label) = count
              /\ count = Cardinality(PositionsOf(ret.chords, label))
              /\ \A k \in DictKeys(d) :
                   /\ Cardinality(PositionsOf(ret.chords, k)) <= count
                   /\ (k # label /\ Cardinality(PositionsOf(ret.chords, k)) = count) =>
                        FirstSeen(ret.chords, label) < FirstSeen(ret.chords, k)
    /\ _analyze_chord_statistics(SixChords).most_common_chord = <<"G">>
    /\ _analyze_chord_statistics(SixChords).most_common_count = 3

\* a tie in which the label seen first is not the alphabetically first one
C7_Witness ==
    /\ pc = "analyzed"
    /\ ret # None
    /\ ret.statistics.most_common_chord = <<"G">>
    /\ DictHas(ret.statistics.chord_distribution, <<"C">>)
    /\ DictGet(ret.statistics.chord_distribution, <<"C">>) = ret.statistics.most_common_count

\* C8: chords_to_midi returns None for insufficient notes exactly when the
\* notes list it built holds fewer than 2 notes.
C8_InsufficientIffFewerThanTwo ==
    (pc = "returned") =>
        ((midi_path = "None:insufficient") <=> (Len(notes) < 2))

\* the smallest non-empty notes list, which is accepted
C8_Witness ==
    /\ pc = "returned"
    /\ Len(notes) = 3
    /\ midi_path = "file.mid"

\* the interval list of a label: the table entry of its quality, or the
\* entry of '' when the quality is not a key
IntervalsFor(label) ==
    LET q == parse_chord(label)[2]
    IN  IF DictHas(CHORD_TYPE_MAP, q) THEN DictGet(CHORD_TYPE_MAP, q) ELSE <<0, 4, 7>>

CMaj == <<"C", ":", "m", "a", "j">>

\* C9: every note lies in the window of a segment; a segment whose label is
\* not "N" and whose root parses has, in its window, one note per interval
\* of its interval list, pitched root + interval at velocity 80, in list
\* order; any other segment has no note. Two C:maj segments give 6 notes,
\* pitches 60, 64, 67 in each window.
C9_OneNotePerInterval ==
    /\ (pc = "returned") =>
          /\ \A n \in 1..Len(notes) : \E i \in 1..Len(chord_segments) :
                notes[n].start = chord_segments[i][1] /\ notes[n].end = chord_segments[i][2]
          /\ \A i \in 1..Len(chord_segments) :
                LET seg == chord_segments[i]
                    InWindow(n) == n.start = seg[1] /\ n.end = seg[2]
                    win == SelectSeq(notes, InWindow)
                    ivs == IntervalsFor(seg[3])
                IN  IF seg[3] # <<"N">> /\ RootParses(seg[3])
                    THEN /\ Len(win) = Len(ivs)
                         /\ \A k \in 1..Len(ivs) :
                              /\ win[k].pitch = DictGet(CHORD_ROOT_MAP, parse_chord(seg[3])[1]) + ivs[k]
                              /\ win[k].velocity = 80
                    ELSE win = <<>>
    /\ (pc = "returned" /\ chord_segments = << <<0, 1, CMaj>>, <<1, 2, CMaj>> >>) =>
          /\ Len(notes) = 6
          /\ [n \in 1..6 |-> notes[n].pitch] = <<60, 64, 67, 60, 64, 67>>
          /\ \A n \in 1..3 : notes[n].start = 0 /\ notes[n + 3].start = 1

\* two C:maj segments with distinct windows were synthesised
C9_Witness ==
    /\ pc = "returned"
    /\ chord_segments = << <<0, 1, CMaj>>, <<1, 2, CMaj>> >>
    /\ Len(notes) = 6

Parseable(seg) == RootParses(seg[3])

\* C10: the notes list is the one chords_to_midi builds from the input
\* without its segments whose root is not in the root table, and every
\* chord segment of the input has its notes whatever the other segments are.
C10_UnparseableRootSkipped ==
    (pc = "returned") =>
        /\ notes = BuildNotes(SelectSeq(chord_segments, Parseable))
        /\ \A i \in 1..Len(chord_segments) :
             (chord_segments[i][3] # <<"N">> /\ RootParses(chord_segments[i][3])) =>
                \E n \in 1..Len(notes) : notes[n].start = chord_segments[i][1]

\* an Xb:maj segment between two chords, both of which were synthesised
C10_Witness ==
    /\ pc = "returned"
    /\ Len(chord_segments) = 3
    /\ chord_segments[2][3] = <<"X", "b", ":", "m", "a", "j">>
    /\ RootParses(chord_segments[1][3])
    /\ RootParses(chord_segments[3][3])
    /\ \E n \in 1..Len(notes) : notes[n].start = chord_segments[1][1]
    /\ \E n \in 1..Len(notes) : notes[n].start = chord_segments[3][1]

\* the position in chord_segments of the segment whose window a note has
SegmentOf(n) ==
    CHOOSE i \in 1..Len(chord_segments) :
        chord_segments[i][1] = n.start /\ chord_segments[i][2] = n.end

\* C11: the notes follow the order of the segments, and the notes of one
\* segment have strictly ascending pitch; every interval list of the
\* quality table, the fallback among them, is strictly ascending.
C11_NotesInSegmentThenIntervalOrder ==
    /\ (pc = "returned") =>
          \A a, b \in 1..Len(notes) :
              (a < b) =>
                 /\ SegmentOf(notes[a]) <= SegmentOf(notes[b])
                 /\ (SegmentOf(notes[a]) = SegmentOf(notes[b])) => notes[a].pitch < notes[b].pitch
    /\ \A q \in 1..Len(CHORD_TYPE_MAP) :
          \A a, b \in 1..Len(CHORD_TYPE_MAP[q][2]) :
              (a < b) => CHORD_TYPE_MAP[q][2][a] < CHORD_TYPE_MAP[q][2][b]

\* three segments were synthesised, the first and the last sounding, one of
\* them with a four-note chord
C11_Witness ==
    /\ pc = "returned"
    /\ Len(chord_segments) = 3
    /\ Len(notes) >= 7
    /\ \E n \in 1..Len(notes) : notes[n].start = chord_segments[1][1]
    /\ \E n \in 1..Len(notes) : notes[n].start = chord_segments[3][1]

\* the ':'-separated root and quality of a label as written, before any
\* case change
WrittenRoot(label) == strip(IF HasColon(label) THEN split1(label)[1] ELSE label)

WrittenQuality(label) == strip(IF HasColon(label) THEN split1(label)[2] ELSE <<>>)

\* C12: a segment whose label has a root of the root table and a quality
\* that is not a key of the quality table sounds the notes root + 0, 4, 7.
C12_UnknownQualityFallsBack ==
    (pc = "returned") =>
        \A i \in 1..Len(chord_segments) :
            LET seg == chord_segments[i]
                InWindow(n) == n.start = seg[1] /\ n.end = seg[2]
                win == SelectSeq(notes, InWindow)
            IN  (WrittenRoot(seg[3]) \in RootNames
                   /\ ~DictHas(CHORD_TYPE_MAP, WrittenQuality(seg[3]))) =>
                    /\ Len(win) = 3
                    /\ \A k \in 1..3 :
                         win[k].pitch = DictGet(CHORD_ROOT_MAP, WrittenRoot(seg[3])) + <<0, 4, 7>>[k]

\* C19: every note has a pitch in 60..82, hence a MIDI number in 0..127,
\* and velocity 80.
C19_PitchAndVelocityRange ==
    (pc = "returned") =>
        \A n \in 1..Len(notes) :
            /\ notes[n].pitch \in 60..82
            /\ notes[n].pitch \in 0..127
            /\ notes[n].velocity = 80

\* the highest note of the tables, the major seventh of B, was produced
C19_Witness ==
    /\ pc = "returned"
    /\ \E n \in 1..Len(notes) : notes[n].pitch = 82
    /\ \E n \in 1..Len(notes) : notes[n].pitch = 71

\* positions of v that hold the first occurrence of their label
FirstOccurrences(v) == {i \in 1..Len(v) : \A j \in 1..(i - 1) : v[j] # v[i]}

\* C13: the diversity ratio shown is (distinct labels) / (labels) of the
\* valid-label list, its divisor is not 0, it lies in [0,1], and it is 1
\* exactly when the labels are pairwise distinct; for no label at all the
\* expression is 0.
C13_DiversityRatio ==
    /\ (pc = "pattern" /\ metrics.shown) =>
          LET v == metrics.valid_chords
              r == metrics.unique_ratio
          IN  /\ v = ValidLabels(analysis_result.chords)
              /\ r[2] = Len(v)
              /\ r[2] > 0
              /\ r[1] = Cardinality(FirstOccurrences(v))
              /\ 0 <= r[1]
              /\ r[1] <= r[2]
              /\ (r[1] = r[2]) <=> (\A i, j \in 1..Len(v) : v[i] = v[j] => i = j)
    /\ UniqueRatio(<<>>)[1] = 0
    /\ UniqueRatio(<<>>)[2] # 0

\* three valid labels, two of them equal: the ratio is 2/3
C13_Witness ==
    /\ pc = "pattern"
    /\ metrics.shown
    /\ metrics.unique_ratio = <<2, 3>>

\* C14: the change ratio shown is (positions whose label differs from the
\* one before) / (labels - 1), and 0 for a single label; its divisor is
\* never 0; for [C,C,G,G,G,N] it is 2/5.
C14_ChangeRatio ==
    /\ (pc = "pattern" /\ metrics.shown) =>
          LET v == metrics.valid_chords
              c == metrics.change_ratio
          IN  /\ c[2] # 0
              /\ IF Len(v) > 1
                 THEN c = <<Cardinality({i \in 2..Len(v) : v[i] # v[i - 1]}), Len(v) - 1>>
                 ELSE c[1] = 0
    /\ ChangeRatio(SixLabels) = <<2, 5>>
    /\ ChangeRatio(<<>>)[1] = 0
    /\ ChangeRatio(<<>>)[2] # 0

\* three valid labels with one change between them: the ratio is 1/2
C14_Witness ==
    /\ pc = "pattern"
    /\ metrics.shown
    /\ metrics.change_ratio = <<1, 2>>

\* v[i..i+k-1] is a block of k equal labels
IsBlock(v, i, k) == i + k - 1 <= Len(v) /\ \A j \in i..(i + k - 1) : v[j] = v[i]

\* C15: the longest streak shown is the length of a block of consecutive
\* equal labels of the valid-label list, and no block is longer; for
\* [C,C,G,G,G,N] it is 3.
C15_LongestRun ==
    /\ (pc = "features" /\ metrics.shown) =>
          LET v == metrics.valid_chords
          IN  /\ v = ValidLabels(analysis_result.chords)
              /\ \E i \in 1..Len(v) : IsBlock(v, i, metrics.max_streak)
              /\ \A i \in 1..Len(v) : \A k \in 1..Len(v) :
                    IsBlock(v, i, k) => k <= metrics.max_streak
    /\ MaxStreak(SixLabels) = 3
    /\ MaxStreak(<< <<"C">> >>) = 1

\* the longest block is the last one
C15_Witness ==
    /\ pc = "features"
    /\ metrics.shown
    /\ Len(metrics.valid_chords) = 3
    /\ metrics.valid_chords[1] # metrics.valid_chords[2]
    /\ metrics.valid_chords[2] = metrics.valid_chords[3]
    /\ metrics.max_streak = 2

InList(l, list) == \E i \in 1..Len(list) : list[i] = l

\* the part of a label after its first ':' holds an 'm'
QualityHasM(l) == HasColon(l) /\ HasM(split1(l)[2])

\* C16 as stated: a valid label is in the minor list exactly when its
\* quality substring holds 'm' and it is not "N", and every other valid
\* label but "N" is in the major list.
C16_MinorIffQualityHasM ==
    (pc = "features" /\ metrics.shown) =>
        \A i \in 1..Len(metrics.valid_chords) :
            LET l == metrics.valid_chords[i]
            IN  /\ InList(l, metrics.minor_chords) <=> (QualityHasM(l) /\ l # <<"N">>)
                /\ InList(l, metrics.major_chords) <=> (~QualityHasM(l) /\ l # <<"N">>)

\* C16 amended: a valid label is in the minor list exactly when the label,
\* root part included, holds 'm'; every other valid label but "N" is in the
\* major list; a label other than "N" is in exactly one list, "N" in none,
\* and the two lists hold every occurrence of their labels.
C16_MinorIffLabelHasM ==
    (pc = "features" /\ metrics.shown) =>
        LET v == metrics.valid_chords
            Occ(list, l) == Cardinality({i \in 1..Len(list) : list[i] = l})
        IN  /\ \A i \in 1..Len(v) :
                 LET l == v[i]
                 IN  /\ InList(l, metrics.minor_chords) <=> HasM(l)
                     /\ InList(l, metrics.major_chords) <=> (~HasM(l) /\ l # <<"N">>)
                     /\ (l # <<"N">>) =>
                          (InList(l, metrics.minor_chords) <=> ~InList(l, metrics.major_chords))
                     /\ (l = <<"N">>) =>
                          (~InList(l, metrics.minor_chords) /\ ~InList(l, metrics.major_chords))
                     /\ Occ(metrics.minor_chords, l) + Occ(metrics.major_chords, l)
                          = (IF l = <<"N">> THEN 0 ELSE Occ(v, l))
            /\ \A i \in 1..Len(metrics.minor_chords) : InList(metrics.minor_chords[i], v)
            /\ \A i \in 1..Len(metrics.major_chords) : InList(metrics.major_chords[i], v)

\* "Am", whose 'm' stands before any ':', was classified, next to "N"
C16_Witness ==
    /\ pc = "features"
    /\ metrics.shown
    /\ InList(<<"A", "m">>, metrics.minor_chords)
    /\ InList(<<"N">>, metrics.valid_chords)
    /\ metrics.major_chords # <<>>

\* C17: every segment of the returned sequence has end >= start and
\* start >= 0, and the starts do not decrease along the sequence.
C17_SegmentsValidatedAndSorted ==
    (pc # "uploaded" /\ ret # None) =>
        /\ \A i \in 1..Len(ret.chords) :
             /\ ret.chords[i][2] >= ret.chords[i][1]
             /\ ret.chords[i][1] >= 0
        /\ \A i, j \in 1..Len(ret.chords) :
             (i < j) => ret.chords[i][1] <= ret.chords[j][1]

\* ------------------------------------------------------------------------
\* Session with re-analysis: files are uploaded and analysed one after the
\* other, the settings changing in between
\* ------------------------------------------------------------------------
\* the recognizer outputs of the files of the session
SessionOutputs ==
    { [raised |-> TRUE, arr |-> <<>>],
      NoOutput,
      [raised |-> FALSE, arr |-> <<Tuple3(Num(0), Num(1), Str(<<"C">>))>>],
      [raised |-> FALSE, arr |-> <<Tuple3(Num(0), Num(1), Str(<<"G">>)),
                                   Tuple3(Num(1), Num(2), Str(<<"n", "a", "n">>))>>],
      [raised |-> FALSE, arr |-> <<Tuple3(Num(0), Num(1), Str(<<"A", "m">>)),
                                   Tuple3(Num(1), Num(3), Str(<<"N">>))>>],
      [raised |-> FALSE, arr |-> <<Tuple3(NotANumber, Num(1), Str(<<"C">>)),
                                   Tuple3(Num(1), Num(2), Str(<<"G">>))>>] }

InitSession ==
    /\ chords_arr = NoOutput
    /\ ret = None
    /\ analysis_result = None
    /\ chord_segments = <<>>
    /\ notes = <<>>
    /\ midi_path = "unset"
    /\ metrics = NoMetrics
    /\ settings = DefaultSettings
    /\ pc = "idle"

\* audio_file_uploader gives a file; nothing of the previous run is left
\* but the session state
upload ==
    /\ chords_arr' \in SessionOutputs
    /\ ret' = None
    /\ pc' = "uploaded"
    /\ UNCHANGED <<analysis_result, chord_segments, notes, midi_path, metrics, settings>>

\* the checkboxes of render_sidebar are changed
change_settings ==
    /\ settings' \in Settings \ {settings}
    /\ UNCHANGED <<chords_arr, ret, analysis_result, chord_segments, notes, midi_path, metrics, pc>>

NextSession == upload \/ change_settings \/ perform_analysis

SpecSession == InitSession /\ [][NextSession]_vars

\* the stored dict is, field by field, what one invocation on out under the
\* settings s leaves
IsOutputOf(stored, out, s) ==
    LET r == analyze_audio_file(out)
    IN  /\ r # None
        /\ stored.chords = r.chords
        /\ stored.statistics = r.statistics
        /\ stored.duration = r.duration
        /\ stored.timeline_plot.present = s.show_timeline
        /\ stored.distribution_plot.present = s.show_distribution
        /\ stored.timeline_plot.present =>
              stored.timeline_plot.fig
                = [i \in 1..Cardinality(ValidPositions(r.chords)) |->
                     LET p == CHOOSE q \in ValidPositions(r.chords) :
                                Cardinality({x \in ValidPositions(r.chords) : x <= q}) = i
                     IN  <<r.chords[p][1], strip(r.chords[p][3])>>]
        /\ stored.distribution_plot.present =>
              stored.distribution_plot.fig = r.statistics.chord_distribution

\* C18: the stored result is absent or entirely the output of one
\* invocation; an analysis that returns a result replaces it by the output
\* of that invocation, an analysis that returns None leaves it as it was,
\* and no other step changes it.
C18_StoredResultIsLastSuccess ==
    /\ [](analysis_result # None =>
            \E out \in SessionOutputs : \E s \in Settings : IsOutputOf(analysis_result, out, s))
    /\ [][ /\ (pc = "uploaded" /\ pc' = "analyzed" /\ ret' # None) =>
               (ret' = analyze_audio_file(chords_arr)
                  /\ IsOutputOf(analysis_result', chords_arr, settings))
           /\ (pc = "uploaded" /\ pc' = "analyzed" /\ ret' = None) =>
               analysis_result' = analysis_result
           /\ ~(pc = "uploaded" /\ pc' = "analyzed") =>
               analysis_result' = analysis_result ]_vars

\* a failed attempt after a successful one: the stored result is still there
C18_Witness ==
    /\ pc = "analyzed"
    /\ ret = None
    /\ analysis_result # None
    /\ ~analysis_result.timeline_plot.present

====
